---- MODULE Spec2Model ----
(***************************************************************************)
(* Model of scripts/voice_wake.py: the VoiceWakeService polling loop       *)
(* (start), the recording workers it spawns (record_and_transcribe), the   *)
(* signal handler and stop, and main's exit paths.                         *)
(*                                                                         *)
(* Threads.  The polling loop, the signal handler and main run on the      *)
(* main thread (Python runs signal handlers on the main thread, between    *)
(* two of its bytecodes).  Every accepted trigger starts one daemon thread *)
(* that runs record_and_transcribe.  Each action below is one step of one  *)
(* thread; steps of different threads interleave freely.                   *)
(*                                                                         *)
(* Time.  now stands for time.time(); it is read as a monotone clock,      *)
(* counted in whole seconds.  Confidence scores are counted in hundredths. *)
(*                                                                         *)
(* Specifications.  Spec is the whole service with each worker's cycle in *)
(* coarse steps.  CycleSpec is one cycle of the first worker in detail:    *)
(* play_wake_feedback, send_to_openclaw, speak_response, text_to_speech    *)
(* and the players, with every external call recorded in trace.  StopSpec  *)
(* is the shutdown in detail: stop statement by statement, with the signal *)
(* handler nesting inside it.  LiveSpec and FairCycleSpec add fairness.    *)
(* Texts and paths are sequences of tokens, so that strip, split and       *)
(* startswith are computed on them.                                        *)
(***************************************************************************)
EXTENDS Integers, FiniteSets, Sequences, TLC

\* ---------------------------------------------------------------- bounds
MaxWorkers == 2     \* worker threads the polling loop may start in a run
TimeSpan   == 4     \* seconds the clock may advance during a run
MaxReads   == 3     \* reads of the audio stream attempted in a run
MaxSignals == 1     \* SIGINT/SIGTERM deliveries in a run
MaxPayloads == 2    \* payloads in one reply of the agent

\* ------------------------------------------------------- program constants
WAKE_WORD           == "hey_jarvis"
DETECTION_THRESHOLD == 30
Cooldown            == 3

WakeWords == {"hey_jarvis", "alexa"}
Scores    == {25, 30, 45}     \* below, at and above the threshold
StartTime == Cooldown + 1
MaxTime   == StartTime + TimeSpan
Workers   == 1..MaxWorkers

\* the score mappings wake_word_model.predict may return: any score, or no
\* entry, for the configured wake word; a high score, or no entry, for the
\* other one
Frames ==
    {p \in UNION {[S -> Scores] : S \in SUBSET WakeWords} :
        \A n \in DOMAIN p : n # WAKE_WORD => p[n] = 45}
NoPredictions == [w \in {} |-> 0]

ExitPaths == {"success", "empty", "not_understood", "service_error",
              "no_reply", "exception", "render_failed"}

\* the exit paths on which a step of the cycle failed: capture or another
\* exception, transcription, dispatch, synthesis or playback
FailurePaths == {"not_understood", "service_error", "no_reply", "exception",
                 "render_failed"}

\* ------------------------------------------------------------ texts
\* A text is a sequence of tokens; " " and "\n" are its whitespace, "MEDIA:"
\* is the media-reference marker, and a path is a text whose first token is
\* its directory prefix.
Whitespace == {" ", "\n"}
Marker     == "MEDIA:"

\* Python's None, and the empty string
None  == <<"<None>">>
Empty == <<>>

\* str.strip()
RECURSIVE LStrip(_)
LStrip(t) ==
    IF t # Empty /\ Head(t) \in Whitespace THEN LStrip(Tail(t)) ELSE t
RECURSIVE RStrip(_)
RStrip(t) ==
    IF t # Empty /\ t[Len(t)] \in Whitespace
    THEN RStrip(SubSeq(t, 1, Len(t) - 1)) ELSE t
Strip(t) == RStrip(LStrip(t))

\* Python truthiness of an Optional[str]
Truthy(t) == t # None /\ t # Empty

\* the files of a run
MediaFile    == <<"/tmp/", "x.mp3">>        \* named by a MEDIA: reply
ToolFile     == <<"/tmp/tts-", "a.mp3">>    \* written by the agent's tts
OtherFile    == <<"/home/", "a.mp3">>       \* written by the agent's tts
ToneTemp     == <<"/tmp/", "tmpA.wav">>     \* play_wake_feedback's temp file
FallbackTemp == <<"/tmp/", "tmpB.wav">>     \* text_to_speech's temp file

\* what recognize_google may return
Transcripts ==
    {Empty, <<" ">>, <<"lights">>, <<" ", "lights", "on", "\n">>}

\* record_and_transcribe, line 457: the directive appended to the transcript
DirectiveSuffix == <<". Reply in voice mode.">>

\* the text fields an agent payload may carry
ReplyTexts ==
    {Empty, <<"hello">>, <<Marker>> \o MediaFile,
     <<Marker, " ">> \o MediaFile \o <<"\n">>}

VARIABLES
    mainpc,            \* position of the main thread
    running,           \* self.running
    recording,         \* self.recording (the active flag)
    wake_word_model,   \* self.wake_word_model is set
    audio_stream,      \* self.audio_stream is set
    pyaudio_instance,  \* self.pyaudio_instance is set
    last_run,          \* start's local last_run
    predictions,       \* start's local predictions
    now,               \* time.time()
    wpc,               \* position of each worker thread
    path,              \* the exit path a worker in its finally clause took
    cycles,            \* recording cycles each worker has started
    reads,             \* reads of the audio stream attempted so far
    frameLaunches,     \* workers launched since the latest read
    lastLaunch,        \* time of the latest worker launch
    initRan,           \* the initializers called so far, in order
    initFailed,        \* the initializer that returned False, or "none"
    signals,           \* signals handled so far
    exitCode,          \* the process's exit status, -1 while undecided
    cycleFailed,       \* some recording cycle has ended on a failure path
    \* one recording cycle in detail (specification CycleSpec)
    cpc,               \* position inside record_and_transcribe and callees
    enable_tts,        \* Config.ENABLE_TTS
    stt,               \* what recognize_google did
    agent,             \* what the agent process did
    reply,             \* what send_to_openclaw returned
    synth,             \* what the agent's tts sub-command did
    audio_path,        \* speak_response's local audio_path
    files,             \* the files that exist
    trace,             \* the external calls made so far, in order
    \* the shutdown in detail (specification StopSpec)
    stack,             \* the calls of stop in progress on the main thread
    device,            \* the state of the PortAudio stream and library
    calls,             \* the teardown calls made so far, in order
    stops,             \* calls of stop begun so far
    left               \* the attributes as the first returned stop left them

vars == <<mainpc, running, recording, wake_word_model, audio_stream,
          pyaudio_instance, last_run, predictions, now, wpc, path, cycles,
          reads, frameLaunches, lastLaunch, initRan, initFailed, signals,
          exitCode, cycleFailed, cpc, enable_tts, stt, agent, reply, synth,
          audio_path, files, trace, stack, device, calls, stops, left>>

mainv == <<mainpc, running, wake_word_model, audio_stream, pyaudio_instance,
           last_run, predictions, now, cycles, reads, frameLaunches,
           lastLaunch, initRan, initFailed, signals, exitCode, stack,
           device, calls, stops, left>>
cyclev == <<cpc, enable_tts, stt, agent, reply, synth, audio_path, files,
            trace>>
stopv  == <<stack, device, calls, stops, left>>

handles  == <<wake_word_model, audio_stream, pyaudio_instance>>
workerv  == <<wpc, path, cycles>>
history  == <<reads, frameLaunches, lastLaunch, initRan, initFailed>>

Launched == Cardinality({w \in Workers : wpc[w] # "idle"})

\* positions of a worker after the overlap check and before its end
BodyPcs == {"set", "capture", "feedback", "transcribe", "dispatch", "speak",
            "finally"}
InBody(w) == wpc[w] \in BodyPcs

\* positions of the main thread inside the accepted-trigger branch
TriggerPcs == {"cue_play", "cue_unlink", "spawn", "set_last"}

\* outside CycleSpec the detailed cycle is not running
Unset == [kind |-> "unset"]

CycleOff ==
    /\ cpc = "off"
    /\ enable_tts = TRUE
    /\ stt = Unset
    /\ agent = Unset
    /\ reply = None
    /\ synth = Unset
    /\ audio_path = None
    /\ files = {}
    /\ trace = <<>>

\* outside StopSpec the calls of stop are single steps
StopOff ==
    /\ stack = <<>>
    /\ device = Unset
    /\ calls = <<>>
    /\ stops = 0
    /\ left = Unset

Init ==
    /\ mainpc = "init_wake"
    /\ running = FALSE
    /\ recording = FALSE
    /\ wake_word_model = FALSE
    /\ audio_stream = FALSE
    /\ pyaudio_instance = FALSE
    /\ last_run = 0
    /\ predictions = NoPredictions
    /\ now = StartTime
    /\ wpc = [w \in Workers |-> "idle"]
    /\ path = [w \in Workers |-> "none"]
    /\ cycles = [w \in Workers |-> 0]
    /\ reads = 0
    /\ frameLaunches = 0
    /\ lastLaunch = 0
    /\ initRan = <<>>
    /\ initFailed = "none"
    /\ signals = 0
    /\ exitCode = -1
    /\ cycleFailed = FALSE
    /\ CycleOff
    /\ StopOff

\* ------------------------------------------------------------------ clock
Tick ==
    /\ now < MaxTime
    /\ mainpc # "exited"
    /\ now' = now + 1
    /\ UNCHANGED <<mainpc, running, recording, handles, last_run,
                   predictions, workerv, history, signals, exitCode>>
    /\ UNCHANGED <<cycleFailed, cyclev, stopv>>

\* ---------------------------------------------------------- main thread
\* VoiceWakeService.stop: clears running and releases the three handles
stop ==
    /\ running' = FALSE
    /\ audio_stream' = FALSE
    /\ pyaudio_instance' = FALSE
    /\ wake_word_model' = FALSE

StartIgnoringInit(ok, next) == next

\* start, lines 486-496: an initializer that returns False makes start
\* return False at once; otherwise start goes on with the next step
StartAfterInit(ok, next) == IF ok THEN next ELSE "ret_false"

InitWake ==
    /\ mainpc = "init_wake"
    /\ initRan' = Append(initRan, "wake")
    /\ \E ok \in BOOLEAN :
          /\ wake_word_model' = ok
          /\ initFailed' = IF ok THEN initFailed ELSE "wake"
          /\ mainpc' = StartAfterInit(ok, "init_sr")
    /\ UNCHANGED <<running, recording, audio_stream, pyaudio_instance,
                   last_run, predictions, now, workerv, reads,
                   frameLaunches, lastLaunch, signals, exitCode>>
    /\ UNCHANGED <<cycleFailed, cyclev, stopv>>

InitSpeech ==
    /\ mainpc = "init_sr"
    /\ initRan' = Append(initRan, "sr")
    /\ \E ok \in BOOLEAN :
          /\ initFailed' = IF ok THEN initFailed ELSE "sr"
          /\ mainpc' = StartAfterInit(ok, "init_stream")
    /\ UNCHANGED <<running, recording, handles, last_run, predictions, now,
                   workerv, reads, frameLaunches, lastLaunch, signals,
                   exitCode>>
    /\ UNCHANGED <<cycleFailed, cyclev, stopv>>

\* initialize_audio_stream: PyAudio() may fail, or open() may fail after
\* pyaudio_instance was assigned
InitStream ==
    /\ mainpc = "init_stream"
    /\ initRan' = Append(initRan, "stream")
    /\ \E inst \in BOOLEAN, opened \in BOOLEAN :
          /\ opened => inst
          /\ pyaudio_instance' = inst
          /\ audio_stream' = opened
          /\ initFailed' = IF opened THEN initFailed ELSE "stream"
          /\ mainpc' = StartAfterInit(opened, "set_running")
    /\ UNCHANGED <<running, recording, wake_word_model, last_run,
                   predictions, now, workerv, reads, frameLaunches,
                   lastLaunch, signals, exitCode>>
    /\ UNCHANGED <<cycleFailed, cyclev, stopv>>

\* start, lines 502-504
SetRunning ==
    /\ mainpc = "set_running"
    /\ running' = TRUE
    /\ last_run' = 0
    /\ mainpc' = "loop"
    /\ UNCHANGED <<recording, handles, predictions, now, workerv, history,
                   signals, exitCode>>
    /\ UNCHANGED <<cycleFailed, cyclev, stopv>>

\* start, line 508 (and 549-550 when the loop ends)
LoopTest ==
    /\ mainpc = "loop"
    /\ mainpc' = IF running THEN "read" ELSE "ret_true"
    /\ UNCHANGED <<running, recording, handles, last_run, predictions, now,
                   workerv, history, signals, exitCode>>
    /\ UNCHANGED <<cycleFailed, cyclev, stopv>>

TriggersAtThreshold(p) ==
    WAKE_WORD \in DOMAIN p /\ p[WAKE_WORD] >= DETECTION_THRESHOLD

\* start, lines 523-525: the configured wake word is in the mapping and its
\* confidence exceeds the threshold
Triggers(p) == WAKE_WORD \in DOMAIN p /\ p[WAKE_WORD] > DETECTION_THRESHOLD

CooldownReached(t, last) == t - last >= Cooldown

\* start, line 528
CooldownElapsed(t, last) == t - last > Cooldown

\* the frames the detector reports: no triggering frame once every worker
\* thread of the run has been started
OfferedFrames ==
    IF Launched < MaxWorkers THEN Frames
    ELSE {p \in Frames : ~Triggers(p)}

\* start, lines 511-520: read a frame and run the detector; either call may
\* raise, and read raises when stop has cleared the stream
ReadFrame ==
    /\ mainpc = "read"
    /\ reads < MaxReads
    /\ reads' = reads + 1
    /\ frameLaunches' = 0
    /\ \/ /\ audio_stream
          /\ \E p \in OfferedFrames : predictions' = p
          /\ mainpc' = "decide"
       \/ /\ mainpc' = "poll_err"
          /\ UNCHANGED predictions
    /\ UNCHANGED <<running, recording, handles, last_run, now, workerv,
                   lastLaunch, initRan, initFailed, signals, exitCode>>
    /\ UNCHANGED <<cycleFailed, cyclev, stopv>>

DecideUnlessRecording ==
    /\ mainpc = "decide"
    /\ mainpc' = IF /\ Triggers(predictions)
                    /\ CooldownElapsed(now, last_run)
                    /\ ~recording
                 THEN "cue_play" ELSE "loop"
    /\ UNCHANGED <<running, recording, handles, last_run, predictions, now,
                   workerv, history, signals, exitCode>>
    /\ UNCHANGED <<cycleFailed, cyclev, stopv>>

\* start, lines 523-528
Decide ==
    /\ mainpc = "decide"
    /\ mainpc' = IF Triggers(predictions) /\ CooldownElapsed(now, last_run)
                 THEN "cue_play" ELSE "loop"
    /\ UNCHANGED <<running, recording, handles, last_run, predictions, now,
                   workerv, history, signals, exitCode>>
    /\ UNCHANGED <<cycleFailed, cyclev, stopv>>

PollErrorFatal == "ret_false"

\* start, lines 540-543: the handler of the loop body's try
PollErrorNext == "loop"

PollError ==
    /\ mainpc = "poll_err"
    /\ mainpc' = PollErrorNext
    /\ UNCHANGED <<running, recording, handles, last_run, predictions, now,
                   workerv, history, signals, exitCode>>
    /\ UNCHANGED <<cycleFailed, cyclev, stopv>>

\* start, line 530 -> play_wake_feedback, lines 230-260: write the tone to a
\* temporary file and run aplay; a failure before the file exists is caught
\* at lines 268-269
CuePlay ==
    /\ mainpc = "cue_play"
    /\ mainpc' \in {"cue_unlink", "spawn"}
    /\ UNCHANGED <<running, recording, handles, last_run, predictions, now,
                   workerv, history, signals, exitCode>>
    /\ UNCHANGED <<cycleFailed, cyclev, stopv>>

\* play_wake_feedback, lines 261-266: try: os.unlink  except: pass
CueUnlink ==
    /\ mainpc = "cue_unlink"
    /\ mainpc' = "spawn"
    /\ UNCHANGED <<running, recording, handles, last_run, predictions, now,
                   workerv, history, signals, exitCode>>
    /\ UNCHANGED <<cycleFailed, cyclev, stopv>>

\* start, lines 533-536: Thread(target=record_and_transcribe).start()
Spawn ==
    /\ mainpc = "spawn"
    /\ Launched < MaxWorkers
    /\ wpc' = [wpc EXCEPT ![Launched + 1] = "check"]
    /\ frameLaunches' = frameLaunches + 1
    /\ lastLaunch' = now
    /\ mainpc' = "set_last"
    /\ UNCHANGED <<running, recording, handles, last_run, predictions, now,
                   path, cycles, reads, initRan, initFailed, signals,
                   exitCode>>
    /\ UNCHANGED <<cycleFailed, cyclev, stopv>>

JoinsWorker(w) == wpc[w] \in {"done", "dropped"}

\* start, lines 533-538: start() returns at once and the thread is never
\* joined, so the loop goes on whatever the worker is doing
CanProceedAfterLaunch(w) == TRUE

\* start, line 538
SetLastFromLaunch ==
    /\ mainpc = "set_last"
    /\ CanProceedAfterLaunch(Launched)
    /\ last_run' = lastLaunch
    /\ mainpc' = "loop"
    /\ UNCHANGED <<running, recording, handles, predictions, now, workerv,
                   history, signals, exitCode>>
    /\ UNCHANGED <<cycleFailed, cyclev, stopv>>

SetLast ==
    /\ mainpc = "set_last"
    /\ CanProceedAfterLaunch(Launched)
    /\ last_run' = now
    /\ mainpc' = "loop"
    /\ UNCHANGED <<running, recording, handles, predictions, now, workerv,
                   history, signals, exitCode>>
    /\ UNCHANGED <<cycleFailed, cyclev, stopv>>

\* start returns True (line 550); main falls through to its finally
ReturnTrue ==
    /\ mainpc = "ret_true"
    /\ exitCode' = 0
    /\ mainpc' = "main_finally"
    /\ UNCHANGED <<running, recording, handles, last_run, predictions, now,
                   workerv, history, signals>>
    /\ UNCHANGED <<cycleFailed, cyclev, stopv>>

\* start returns False; main, lines 584-586: sys.exit(1)
ReturnFalse ==
    /\ mainpc = "ret_false"
    /\ exitCode' = 1
    /\ mainpc' = "main_finally"
    /\ UNCHANGED <<running, recording, handles, last_run, predictions, now,
                   workerv, history, signals>>
    /\ UNCHANGED <<cycleFailed, cyclev, stopv>>

\* main, lines 592-593: finally: service.stop(); then the process exits
MainFinally ==
    /\ mainpc = "main_finally"
    /\ stop
    /\ mainpc' = "exited"
    /\ UNCHANGED <<recording, last_run, predictions, now, workerv, history,
                   signals, exitCode>>
    /\ UNCHANGED <<cycleFailed, cyclev, stopv>>

\* _signal_handler, lines 94-98, run on the main thread wherever it is:
\* stop(), then sys.exit(0) raises SystemExit at the interrupted position.
\* SystemExit passes every "except Exception"; the bare except around
\* os.unlink (line 265) catches it, and a SystemExit raised inside main's
\* finally replaces the exit status
Signal ==
    /\ mainpc # "exited"
    /\ signals < MaxSignals
    /\ signals' = signals + 1
    /\ stop
    /\ \/ /\ mainpc = "cue_unlink"
          /\ mainpc' = "spawn"
          /\ UNCHANGED exitCode
       \/ /\ mainpc # "main_finally"
          /\ mainpc' = "main_finally"
          /\ exitCode' = 0
       \/ /\ mainpc = "main_finally"
          /\ mainpc' = "exited"
          /\ exitCode' = 0
    /\ UNCHANGED <<recording, last_run, predictions, now, workerv, history>>
    /\ UNCHANGED <<cycleFailed, cyclev, stopv>>

MainStep ==
    \/ InitWake \/ InitSpeech \/ InitStream \/ SetRunning \/ LoopTest
    \/ ReadFrame \/ Decide \/ PollError \/ CuePlay \/ CueUnlink \/ Spawn
    \/ SetLast \/ ReturnTrue \/ ReturnFalse \/ MainFinally

\* --------------------------------------------------------- worker threads
\* A worker runs only while the process lives: the threads are daemons.
Alive == mainpc # "exited"

OverlapCheckSkipped(w) ==
    /\ mainpc # "exited"
    /\ wpc[w] = "check"
    /\ wpc' = [wpc EXCEPT ![w] = "set"]
    /\ UNCHANGED <<mainpc, running, recording, handles, last_run,
                   predictions, now, path, cycles, history, signals,
                   exitCode>>
    /\ UNCHANGED <<cycleFailed, cyclev, stopv>>

\* record_and_transcribe, lines 432-433: the overlap check.  The read of
\* self.recording here and the write at line 435 are separate steps with no
\* lock around them.
OverlapCheck(w) ==
    /\ Alive
    /\ wpc[w] = "check"
    /\ wpc' = [wpc EXCEPT ![w] = IF recording THEN "dropped" ELSE "set"]
    /\ UNCHANGED <<mainpc, running, recording, handles, last_run,
                   predictions, now, path, cycles, history, signals,
                   exitCode>>
    /\ UNCHANGED <<cycleFailed, cyclev, stopv>>

\* record_and_transcribe, line 435
SetActive(w) ==
    /\ Alive
    /\ wpc[w] = "set"
    /\ recording' = TRUE
    /\ cycles' = [cycles EXCEPT ![w] = @ + 1]
    /\ wpc' = [wpc EXCEPT ![w] = "capture"]
    /\ UNCHANGED <<mainpc, running, handles, last_run, predictions, now,
                   path, history, signals, exitCode>>
    /\ UNCHANGED <<cycleFailed, cyclev, stopv>>

BodyStepStoppingService(w, from, to, p) ==
    /\ mainpc # "exited"
    /\ wpc[w] = from
    /\ \/ /\ p = "none"
          /\ wpc' = [wpc EXCEPT ![w] = to]
          /\ UNCHANGED <<path, running>>
       \/ /\ p # "none"
          /\ wpc' = [wpc EXCEPT ![w] = "finally"]
          /\ path' = [path EXCEPT ![w] = p]
          /\ running' = (running /\ p \notin FailurePaths)
    /\ UNCHANGED <<mainpc, recording, handles, last_run, predictions, now,
                   cycles, history, signals, exitCode, cycleFailed, cyclev>>
    /\ UNCHANGED stopv

\* a step of the cycle body: it goes on to the next step, or leaves the try
\* block for the finally clause along the exit path p
BodyStep(w, from, to, p) ==
    /\ Alive
    /\ wpc[w] = from
    /\ \/ /\ p = "none"
          /\ wpc' = [wpc EXCEPT ![w] = to]
          /\ UNCHANGED path
       \/ /\ p # "none"
          /\ wpc' = [wpc EXCEPT ![w] = "finally"]
          /\ path' = [path EXCEPT ![w] = p]
    /\ UNCHANGED <<mainpc, running, recording, handles, last_run,
                   predictions, now, cycles, history, signals, exitCode>>
    /\ UNCHANGED <<cycleFailed, cyclev, stopv>>

\* lines 440-443: record for the fixed duration, or raise (line 474)
Capture(w) ==
    \E p \in {"none", "exception"} : BodyStep(w, "capture", "feedback", p)

\* line 445: play_wake_feedback, or an exception (line 474)
Feedback(w) ==
    \E p \in {"none", "exception"} : BodyStep(w, "feedback", "transcribe", p)

\* lines 451-453 and 466-472: text to dispatch, an empty transcript,
\* UnknownValueError, RequestError, or another exception (line 474)
Transcribe(w) ==
    \E p \in {"none", "empty", "not_understood", "service_error",
              "exception"} :
        BodyStep(w, "transcribe", "dispatch", p)

\* lines 457-465: send_to_openclaw returns a reply or None, or an exception
Dispatch(w) ==
    \E p \in {"none", "no_reply", "exception"} :
        BodyStep(w, "dispatch", "speak", p)

\* line 463: speak_response returns after speaking or after logging a
\* synthesis or playback failure, or an exception; then the try block ends
Speak(w) ==
    \E p \in {"success", "render_failed", "exception"} :
        BodyStep(w, "speak", "finally", p)

FlagKeptOnException(p) == p = "exception"

\* line 478: the value the finally clause leaves in self.recording
FlagAfterCycle(p) == FALSE

\* record_and_transcribe, lines 477-479
Finally(w) ==
    /\ Alive
    /\ wpc[w] = "finally"
    /\ recording' = FlagAfterCycle(path[w])
    /\ wpc' = [wpc EXCEPT ![w] = "done"]
    /\ path' = [path EXCEPT ![w] = "none"]
    /\ cycleFailed' = (cycleFailed \/ path[w] \in FailurePaths)
    /\ UNCHANGED <<cyclev, stopv>>
    /\ UNCHANGED <<mainpc, running, handles, last_run, predictions, now,
                   cycles, history, signals, exitCode>>

WorkerStep(w) ==
    \/ OverlapCheck(w) \/ SetActive(w) \/ Capture(w) \/ Feedback(w)
    \/ Transcribe(w) \/ Dispatch(w) \/ Speak(w) \/ Finally(w)

\* ------------------------------------------- one recording cycle in detail
\* The pure parts of send_to_openclaw, text_to_speech and speak_response.

\* the result of a try body: a returned value or a raised exception
Return(v) == [exc |-> "none", value |-> v]
Raise(e)  == [exc |-> e, value |-> None]

\* JSON objects the agent may print: a payload with or without a text field,
\* a payload list, a result with or without payloads, a response with or
\* without a result
Payloads     == {[type |-> Empty]} \cup {[text |-> t] : t \in ReplyTexts}
LaterPayloads == {[type |-> Empty], [text |-> <<"hello">>]}
PayloadLists ==
    {<<>>} \cup UNION {{<<p>> \o r : p \in Payloads,
                                    r \in [1..n -> LaterPayloads]} :
                       n \in 0..(MaxPayloads - 1)}
Results      == {[meta |-> Empty]} \cup {[payloads |-> l] : l \in PayloadLists}
Responses    == {[status |-> Empty]} \cup {[result |-> r] : r \in Results}
Stdouts      == {[json |-> FALSE]}
                \cup {[json |-> TRUE, obj |-> o] : o \in Responses}

\* an agent call without a timeout that blocks for ever has no outcome
AgentNeverReturns == {}

\* what subprocess.run of the agent CLI may do (lines 189-194)
AgentOutcomes ==
    {[kind |-> "timeout"], [kind |-> "notfound"]}
    \cup {[kind |-> "exit", rc |-> rc, stdout |-> so] :
            rc \in {0, 1}, so \in Stdouts}

LastPayloadText(payloads) ==
    IF "text" \in DOMAIN payloads[Len(payloads)]
    THEN payloads[Len(payloads)].text ELSE Empty

\* send_to_openclaw, line 209: payloads[0].get('text', '')
FirstPayloadText(payloads) ==
    IF "text" \in DOMAIN payloads[1] THEN payloads[1].text ELSE Empty

\* send_to_openclaw, lines 189-215: the body of the outer try
AgentReplyText(o) ==
    IF o.kind = "timeout" THEN Raise("TimeoutExpired")
    ELSE IF o.kind = "notfound" THEN Raise("FileNotFoundError")
    ELSE IF o.rc # 0 THEN Return(None)
    ELSE IF ~o.stdout.json THEN Raise("JSONDecodeError")
    ELSE LET response == o.stdout.obj IN
         IF /\ "result" \in DOMAIN response
            /\ "payloads" \in DOMAIN response.result
            /\ Len(response.result.payloads) > 0
            /\ Truthy(FirstPayloadText(response.result.payloads))
         THEN Return(FirstPayloadText(response.result.payloads))
         ELSE Return(None)

CaughtIfNamed(e) == e \in {"JSONDecodeError", "TimeoutExpired"}

\* send_to_openclaw, lines 217-226: except json.JSONDecodeError, except
\* subprocess.TimeoutExpired, except Exception
CaughtBySend(e) ==
    e \in {"JSONDecodeError", "TimeoutExpired", "FileNotFoundError"}

\* send_to_openclaw: the value returned, or the exception left uncaught
send_to_openclaw(o) ==
    LET r == AgentReplyText(o) IN
    IF r.exc # "none" /\ CaughtBySend(r.exc) THEN Return(None) ELSE r

\* record_and_transcribe, line 453 and 457: the transcript is dispatched
\* when it is non-empty after strip, as strip() plus the directive
DispatchesUnstripped(text) == text # Empty

Dispatches(text) == text # Empty /\ Strip(text) # Empty
DispatchMessageUnstripped(text) == text \o DirectiveSuffix

DispatchMessage(text) == Strip(text) \o DirectiveSuffix

\* what the agent's tts sub-command may print, and what subprocess.run of
\* it may do (lines 281-286); creates: the file it names was written
TtsStdouts ==
    {<<"no audio">>, <<Marker>>, <<Marker>> \o ToolFile \o <<"\n">>,
     <<"saved", Marker, " ">> \o OtherFile}
SynthOutcomes ==
    {[kind |-> "timeout"], [kind |-> "notfound"], [kind |-> "error"]}
    \cup {[kind |-> "exit", rc |-> rc, stdout |-> so, creates |-> c] :
            rc \in {0, 1}, so \in TtsStdouts, c \in BOOLEAN}

\* 'MEDIA:' in stdout
HasMarker(t) == \E i \in 1..Len(t) : t[i] = Marker

\* the tokens before the first marker, as split does
RECURSIVE BeforeMarker(_)
BeforeMarker(t) ==
    IF t = Empty \/ Head(t) = Marker THEN Empty
    ELSE <<Head(t)>> \o BeforeMarker(Tail(t))

\* stdout.split('MEDIA:')[1]
AfterMarker(t) ==
    BeforeMarker(SubSeq(t, Len(BeforeMarker(t)) + 2, Len(t)))

PrimaryNeverSucceeds(o) == FALSE

\* text_to_speech, line 288
PrimarySucceeded(o) == o.kind = "exit" /\ o.rc = 0 /\ HasMarker(o.stdout)

\* text_to_speech, line 290
PrimaryPath(o) == Strip(AfterMarker(o.stdout))

\* speak_response, lines 388-390
StartsWithMarker(text) == text # Empty /\ Head(text) = Marker
MediaPath(text) == Strip(Tail(text))

SpeakBranchIgnoringConfig(enabled, text, fs) ==
    IF StartsWithMarker(text)
    THEN IF MediaPath(text) \in fs THEN "play_mp3" ELSE "missing"
    ELSE "synthesize"

SpeakBranchSynthesizingMissing(enabled, text, fs) ==
    IF ~enabled THEN "silent"
    ELSE IF StartsWithMarker(text) /\ MediaPath(text) \in fs THEN "play_mp3"
    ELSE "synthesize"

\* speak_response, lines 382-412: which way the decision tree goes
SpeakBranch(enabled, text, fs) ==
    IF ~enabled THEN "silent"
    ELSE IF StartsWithMarker(text)
         THEN IF MediaPath(text) \in fs THEN "play_mp3" ELSE "missing"
         ELSE "synthesize"

AfterMediaFallingBack(success) == IF success THEN "finally" ELSE "tts_primary"

\* speak_response, lines 395-405: both outcomes of play_mp3 return
AfterMedia(success) == "finally"

\* speak_response, line 420: '/tmp/tts-' prefix marks the tool's own files
HasTtsPrefix(p) == p # Empty /\ Head(p) = "/tmp/tts-"

NeverNeedsCleanup(p) == FALSE

NeedsCleanup(p) == ~HasTtsPrefix(p)

\* The steps of one cycle of worker 1, with every call to an external tool,
\* a service or the file system recorded in trace. External tools and
\* services may fail in every way the handlers name; creating the process's
\* own temporary files succeeds; unlinking one may fail, which the bare
\* except clauses around os.unlink swallow.
Ev(op, arg, res) == [op |-> op, arg |-> arg, res |-> res]
PlayOutcomes == {"ok", "fail", "timeout", "notfound"}
UnlinkOutcomes == {"ok", "fail"}
Log(e) == trace' = Append(trace, e)

\* the positions inside speak_response and its callees
SpeakPcs == {"speak", "play_mp3", "tts_primary", "tts_fallback",
             "play_check", "play_audio", "cleanup"}

\* the position of the cycle in the coarse worker of Spec
Coarse(c) ==
    CASE c = "record" -> "capture"
      [] c \in {"tone_create", "tone_play", "tone_unlink"} -> "feedback"
      [] c = "transcribe" -> "transcribe"
      [] c = "dispatch" -> "dispatch"
      [] c \in SpeakPcs -> "speak"
      [] c = "finally" -> "finally"
      [] OTHER -> "done"

Goto(c) == cpc' = c /\ wpc' = [wpc EXCEPT ![1] = Coarse(c)]
Exit(p) == Goto("finally") /\ path' = [path EXCEPT ![1] = p]

\* the state in which the worker launched first starts its cycle: the
\* services are up, the polling loop goes on, the flag is set
CycleInit ==
    /\ mainpc = "loop"
    /\ running = TRUE
    /\ recording = TRUE
    /\ wake_word_model = TRUE
    /\ audio_stream = TRUE
    /\ pyaudio_instance = TRUE
    /\ last_run = StartTime
    /\ predictions = [n \in {WAKE_WORD} |-> 45]
    /\ now = StartTime
    /\ wpc = [w \in Workers |-> IF w = 1 THEN "capture" ELSE "idle"]
    /\ path = [w \in Workers |-> "none"]
    /\ cycles = [w \in Workers |-> IF w = 1 THEN 1 ELSE 0]
    /\ reads = 1
    /\ frameLaunches = 1
    /\ lastLaunch = StartTime
    /\ initRan = <<"wake", "sr", "stream">>
    /\ initFailed = "none"
    /\ signals = 0
    /\ exitCode = -1
    /\ cycleFailed = FALSE
    /\ cpc = "record"
    /\ enable_tts \in BOOLEAN
    /\ stt = Unset
    /\ agent = Unset
    /\ reply = None
    /\ synth = Unset
    /\ audio_path = None
    /\ files \in SUBSET {MediaFile}
    /\ trace = <<>>
    /\ StopOff

\* record_and_transcribe, lines 440-443: listen on the microphone
RecordAudio ==
    /\ cpc = "record"
    /\ \E ok \in BOOLEAN :
          /\ Log(Ev("record", Empty, IF ok THEN "ok" ELSE "fail"))
          /\ IF ok THEN Goto("tone_create") /\ UNCHANGED path
                   ELSE Exit("exception")
    /\ UNCHANGED <<mainv, recording, cycleFailed, enable_tts, stt, agent,
                   reply, synth, audio_path, files>>

\* play_wake_feedback, lines 241-249: the tone is written to a temp file
WakeToneCreate ==
    /\ cpc = "tone_create"
    /\ files' = files \cup {ToneTemp}
    /\ Log(Ev("create", ToneTemp, "ok"))
    /\ Goto("tone_play")
    /\ UNCHANGED <<mainv, recording, cycleFailed, path, enable_tts, stt,
                   agent, reply, synth, audio_path>>

AfterTonePlayKeepingOnError(res) ==
    IF res = "ok" THEN "tone_unlink" ELSE "transcribe"

\* play_wake_feedback, lines 255-261: every outcome of aplay reaches the
\* finally clause
AfterTonePlay(res) == "tone_unlink"

\* play_wake_feedback, lines 252-260: aplay, whose failures are logged
WakeTonePlay ==
    /\ cpc = "tone_play"
    /\ \E res \in PlayOutcomes :
          /\ Log(Ev("aplay", ToneTemp, res))
          /\ Goto(AfterTonePlay(res))
    /\ UNCHANGED <<mainv, recording, cycleFailed, path, enable_tts, stt,
                   agent, reply, synth, audio_path, files>>

\* play_wake_feedback, lines 261-266: the finally clause
WakeToneUnlink ==
    /\ cpc = "tone_unlink"
    /\ \E res \in UnlinkOutcomes :
          /\ files' = IF res = "ok" THEN files \ {ToneTemp} ELSE files
          /\ Log(Ev("unlink", ToneTemp, res))
    /\ Goto("transcribe")
    /\ UNCHANGED <<mainv, recording, cycleFailed, path, enable_tts, stt,
                   agent, reply, synth, audio_path>>

SttOutcomes ==
    {[kind |-> "UnknownValueError"], [kind |-> "RequestError"]}
    \cup {[kind |-> "text", text |-> t] : t \in Transcripts}

\* record_and_transcribe, lines 451-455 and 469-472: recognize_google
RecognizeGoogle ==
    /\ cpc = "transcribe"
    /\ \E r \in SttOutcomes :
          /\ stt' = r
          /\ Log(Ev("stt", Empty, r.kind))
          /\ IF r.kind = "UnknownValueError" THEN Exit("not_understood")
             ELSE IF r.kind = "RequestError" THEN Exit("service_error")
             ELSE IF Dispatches(r.text) THEN Goto("dispatch") /\ UNCHANGED path
             ELSE Exit("empty")
    /\ UNCHANGED <<mainv, recording, cycleFailed, enable_tts, agent, reply,
                   synth, audio_path, files>>

\* record_and_transcribe, lines 457-465, calling send_to_openclaw; an
\* exception it lets through is caught at line 474
SendToOpenclaw ==
    /\ cpc = "dispatch"
    /\ \E o \in AgentOutcomes :
          LET r == send_to_openclaw(o) IN
          /\ agent' = o
          /\ reply' = r.value
          /\ Log(Ev("agent", DispatchMessage(stt.text),
                    IF r.exc = "none" THEN "returned" ELSE "raised"))
          /\ IF r.exc # "none" THEN Exit("exception")
             ELSE IF Truthy(r.value) THEN Goto("speak") /\ UNCHANGED path
             ELSE Exit("no_reply")
    /\ UNCHANGED <<mainv, recording, cycleFailed, enable_tts, stt, synth,
                   audio_path, files>>

\* speak_response, lines 382-412: the decision tree
SpeakResponse ==
    /\ cpc = "speak"
    /\ LET b == SpeakBranch(enable_tts, reply, files) IN
          /\ Log(Ev("speak_response", reply, b))
          /\ CASE b = "silent" -> Exit("success")
               [] b = "missing" -> Exit("render_failed")
               [] b = "play_mp3" -> Goto("play_mp3") /\ UNCHANGED path
               [] OTHER -> Goto("tts_primary") /\ UNCHANGED path
    /\ UNCHANGED <<mainv, recording, cycleFailed, enable_tts, stt, agent,
                   reply, synth, audio_path, files>>

\* speak_response, lines 395-405, calling play_mp3 (lines 351-378)
PlayMp3 ==
    /\ cpc = "play_mp3"
    /\ \E res \in PlayOutcomes :
          /\ Log(Ev("ffplay", MediaPath(reply), res))
          /\ IF AfterMedia(res = "ok") = "finally"
             THEN Exit(IF res = "ok" THEN "success" ELSE "render_failed")
             ELSE Goto(AfterMedia(res = "ok")) /\ UNCHANGED path
    /\ UNCHANGED <<mainv, recording, cycleFailed, enable_tts, stt, agent,
                   reply, synth, audio_path, files>>

\* text_to_speech, lines 273-299: the agent's tts sub-command
TtsPrimary ==
    /\ cpc = "tts_primary"
    /\ \E o \in SynthOutcomes :
          /\ synth' = o
          /\ Log(Ev("tts", reply, IF o.kind = "exit" THEN
                       (IF o.rc = 0 THEN "ok" ELSE "fail") ELSE o.kind))
          /\ files' = IF o.kind = "exit" /\ o.creates /\ HasMarker(o.stdout)
                          /\ PrimaryPath(o) # Empty
                      THEN files \cup {PrimaryPath(o)} ELSE files
          /\ IF PrimarySucceeded(o)
             THEN audio_path' = PrimaryPath(o) /\ Goto("play_check")
             ELSE audio_path' = audio_path /\ Goto("tts_fallback")
    /\ UNCHANGED <<mainv, recording, cycleFailed, path, enable_tts, stt,
                   agent, reply>>

EspeakOutcomes == {"ok", "fail", "timeout", "notfound"}

\* text_to_speech, lines 302-321: a temp file, then espeak writing to it
TtsFallback ==
    /\ cpc = "tts_fallback"
    /\ files' = files \cup {FallbackTemp}
    /\ \E res \in EspeakOutcomes :
          /\ trace' = trace \o <<Ev("create", FallbackTemp, "ok"),
                                  Ev("espeak", FallbackTemp, res)>>
          /\ audio_path' = IF res = "ok" THEN FallbackTemp ELSE None
    /\ Goto("play_check")
    /\ UNCHANGED <<mainv, recording, cycleFailed, path, enable_tts, stt,
                   agent, reply, synth>>

\* speak_response, lines 414 and 424-425
PlayCheck ==
    /\ cpc = "play_check"
    /\ IF Truthy(audio_path) /\ audio_path \in files
       THEN Goto("play_audio") /\ UNCHANGED path
       ELSE Exit("render_failed")
    /\ UNCHANGED <<mainv, recording, cycleFailed, enable_tts, stt, agent,
                   reply, synth, audio_path, files, trace>>

\* speak_response, line 416, calling play_audio (lines 323-349)
PlayAudio ==
    /\ cpc = "play_audio"
    /\ \E res \in PlayOutcomes : Log(Ev("aplay", audio_path, res))
    /\ Goto("cleanup")
    /\ UNCHANGED <<mainv, recording, cycleFailed, path, enable_tts, stt,
                   agent, reply, synth, audio_path, files>>

\* speak_response, lines 419-423
CleanupAudio ==
    /\ cpc = "cleanup"
    /\ IF NeedsCleanup(audio_path)
       THEN \E res \in UnlinkOutcomes :
              /\ files' = IF res = "ok" THEN files \ {audio_path} ELSE files
              /\ Log(Ev("unlink", audio_path, res))
       ELSE UNCHANGED <<files, trace>>
    /\ Exit(IF trace[Len(trace)].res = "ok" THEN "success"
            ELSE "render_failed")
    /\ UNCHANGED <<mainv, recording, cycleFailed, enable_tts, stt, agent,
                   reply, synth, audio_path>>

\* record_and_transcribe, lines 477-479: the finally clause
CycleFinally ==
    /\ cpc = "finally"
    /\ recording' = FlagAfterCycle(path[1])
    /\ cycleFailed' = (cycleFailed \/ path[1] \in FailurePaths)
    /\ path' = [path EXCEPT ![1] = "none"]
    /\ Goto("done")
    /\ UNCHANGED <<mainv, enable_tts, stt, agent, reply, synth, audio_path,
                   files, trace>>

CycleNext ==
    \/ RecordAudio
    \/ WakeToneCreate
    \/ WakeTonePlay
    \/ WakeToneUnlink
    \/ RecognizeGoogle
    \/ SendToOpenclaw
    \/ SpeakResponse
    \/ PlayMp3
    \/ TtsPrimary
    \/ TtsFallback
    \/ PlayCheck
    \/ PlayAudio
    \/ CleanupAudio
    \/ CycleFinally

CycleSpec == CycleInit /\ [][CycleNext]_vars

\* the worker thread is scheduled, and each blocking call of the cycle
\* returns or times out: a step that is possible is taken eventually
FairCycleSpec == CycleSpec /\ WF_vars(CycleNext)

\* ------------------------------------------------- the shutdown in detail
\* stop (lines 552-570) statement by statement, called by the signal handler
\* (lines 94-98) and by main's finally clause (lines 592-593).  A handler
\* runs on the main thread between two statements of whatever that thread
\* is executing, a call of stop included; the exception it raises unwinds
\* the calls in progress.  A teardown call on a stream or library that is
\* still held succeeds; on one already released it returns or raises.
StopPcs == {"enter", "stream_test", "stop_stream", "close", "stream_clear",
            "pa_test", "terminate", "pa_clear", "model", "return"}
\* a call of stop: its caller, its number, whether some call of stop had
\* returned when it began, and its position
Frame(by, n, seq) == [by |-> by, n |-> n, seq |-> seq, pc |-> "enter"]
Top == stack[Len(stack)]
SetPc(p) == stack' = [stack EXCEPT ![Len(stack)].pc = p]
Attributes == [running |-> running, audio_stream |-> audio_stream,
               pyaudio_instance |-> pyaudio_instance,
               wake_word_model |-> wake_word_model]

\* what no step of the shutdown touches
quiet == <<recording, last_run, predictions, now, wpc, path, cycles, reads,
           frameLaunches, lastLaunch, initRan, initFailed, cycleFailed,
           cyclev>>

\* the shutdown starts from the polling loop with every handle held, or
\* from start having returned False after one of the initializers failed
\* (lines 486-496), with the handles set up to then
StopInit ==
    /\ \/ /\ mainpc = "read"
          /\ running = TRUE
          /\ wake_word_model = TRUE
          /\ audio_stream = TRUE /\ pyaudio_instance = TRUE
          /\ initFailed = "none"
          /\ initRan = <<"wake", "sr", "stream">>
          /\ device = [stream |-> "open", pa |-> "live"]
       \/ /\ mainpc = "ret_false"
          /\ running = FALSE
          /\ audio_stream = FALSE
          /\ \/ /\ initFailed = "wake" /\ initRan = <<"wake">>
                /\ wake_word_model = FALSE /\ pyaudio_instance = FALSE
             \/ /\ initFailed = "sr" /\ initRan = <<"wake", "sr">>
                /\ wake_word_model = TRUE /\ pyaudio_instance = FALSE
             \/ /\ initFailed = "stream"
                /\ initRan = <<"wake", "sr", "stream">>
                /\ wake_word_model = TRUE /\ pyaudio_instance \in BOOLEAN
          /\ device = [stream |-> "none",
                       pa |-> IF pyaudio_instance THEN "live" ELSE "none"]
    /\ recording = FALSE
    /\ last_run = 0
    /\ predictions = NoPredictions
    /\ now = StartTime
    /\ wpc = [w \in Workers |-> "idle"]
    /\ path = [w \in Workers |-> "none"]
    /\ cycles = [w \in Workers |-> 0]
    /\ reads = 0
    /\ frameLaunches = 0
    /\ lastLaunch = 0
    /\ signals = 0
    /\ exitCode = -1
    /\ cycleFailed = FALSE
    /\ CycleOff
    /\ stack = <<>>
    /\ calls = <<>>
    /\ stops = 0
    /\ left = Unset

\* _signal_handler, lines 94-97: the handler starts and calls stop
SignalArrives ==
    /\ mainpc # "exited"
    /\ signals < MaxSignals
    /\ signals' = signals + 1
    /\ stops' = stops + 1
    /\ stack' = Append(stack, Frame("handler", stops + 1, left # Unset))
    /\ UNCHANGED <<mainpc, running, handles, exitCode, device, calls, left,
                   quiet>>

\* main, lines 584-593: start returned False, sys.exit(1) raises, and the
\* finally clause calls stop
MainReachesFinally ==
    /\ mainpc = "ret_false"
    /\ stack = <<>>
    /\ mainpc' = "main_finally"
    /\ exitCode' = 1
    /\ stops' = stops + 1
    /\ stack' = <<Frame("finally", stops + 1, left # Unset)>>
    /\ UNCHANGED <<running, handles, signals, device, calls, left, quiet>>

\* an exception leaves the handler: every call in progress is abandoned;
\* outside main's finally clause it ends in that clause, which calls stop
\* (SystemExit passes the except Exception clauses, or is swallowed by the
\* bare except of line 265; another exception is caught at 540, 545 or
\* 589); inside the clause it ends the process
Unwind(exc, seq) ==
    IF mainpc = "main_finally"
    THEN /\ mainpc' = "exited"
         /\ exitCode' = IF exc = "SystemExit" THEN 0 ELSE 1
         /\ stack' = <<>>
         /\ stops' = stops
    ELSE /\ mainpc' = "main_finally"
         /\ exitCode' \in IF exc = "SystemExit" THEN {0}
                          ELSE IF mainpc = "ret_false" THEN {1} ELSE {0, 1}
         /\ stack' = <<Frame("finally", stops + 1, seq)>>
         /\ stops' = stops + 1

\* stop, line 555
StopEnter ==
    /\ stack # <<>> /\ Top.pc = "enter"
    /\ running' = FALSE
    /\ SetPc("stream_test")
    /\ UNCHANGED <<mainpc, handles, signals, exitCode, device, calls, stops,
                   left, quiet>>

\* stop, line 558: if self.audio_stream
StopStreamTest ==
    /\ stack # <<>> /\ Top.pc = "stream_test"
    /\ SetPc(IF audio_stream THEN "stop_stream" ELSE "pa_test")
    /\ UNCHANGED <<mainpc, running, handles, signals, exitCode, device,
                   calls, stops, left, quiet>>

\* a teardown call: logged with the state of its target; it may raise
\* only if the target has been released already
Teardown(op, released, next, after) ==
    /\ calls' = Append(calls, [op |-> op, n |-> Top.n, seq |-> Top.seq,
                               released |-> released])
    /\ \/ /\ device' = after
          /\ SetPc(next)
          /\ UNCHANGED <<mainpc, exitCode, stops>>
       \/ /\ released
          /\ device' = device
          /\ Unwind("OSError", left # Unset)
    /\ UNCHANGED <<running, handles, signals, left, quiet>>

\* stop, line 559: self.audio_stream.stop_stream()
StopStreamCall ==
    /\ stack # <<>> /\ Top.pc = "stop_stream"
    /\ Teardown("stop_stream", device.stream = "closed", "close",
                IF device.stream = "open"
                THEN [device EXCEPT !.stream = "stopped"] ELSE device)

\* stop, line 560: self.audio_stream.close()
StopCloseCall ==
    /\ stack # <<>> /\ Top.pc = "close"
    /\ Teardown("close", device.stream = "closed", "stream_clear",
                [device EXCEPT !.stream = "closed"])

StreamKeptAfterClose == audio_stream

\* stop, line 561: self.audio_stream = None
StreamAfterClose == FALSE

StopStreamClear ==
    /\ stack # <<>> /\ Top.pc = "stream_clear"
    /\ audio_stream' = StreamAfterClose
    /\ SetPc("pa_test")
    /\ UNCHANGED <<mainpc, running, wake_word_model, pyaudio_instance,
                   signals, exitCode, device, calls, stops, left, quiet>>

\* stop, line 563: if self.pyaudio_instance
StopPaTest ==
    /\ stack # <<>> /\ Top.pc = "pa_test"
    /\ SetPc(IF pyaudio_instance THEN "terminate" ELSE "model")
    /\ UNCHANGED <<mainpc, running, handles, signals, exitCode, device,
                   calls, stops, left, quiet>>

\* stop, line 564: self.pyaudio_instance.terminate()
StopTerminate ==
    /\ stack # <<>> /\ Top.pc = "terminate"
    /\ Teardown("terminate", device.pa = "terminated", "pa_clear",
                [device EXCEPT !.pa = "terminated"])

\* stop, line 565: self.pyaudio_instance = None
StopPaClear ==
    /\ stack # <<>> /\ Top.pc = "pa_clear"
    /\ pyaudio_instance' = FALSE
    /\ SetPc("model")
    /\ UNCHANGED <<mainpc, running, wake_word_model, audio_stream, signals,
                   exitCode, device, calls, stops, left, quiet>>

\* stop, lines 567-568: the detector handle is dropped
StopModel ==
    /\ stack # <<>> /\ Top.pc = "model"
    /\ wake_word_model' = FALSE
    /\ SetPc("return")
    /\ UNCHANGED <<mainpc, running, audio_stream, pyaudio_instance, signals,
                   exitCode, device, calls, stops, left, quiet>>

\* stop returns: to the handler, whose sys.exit(0) raises SystemExit (line
\* 98), or to main's finally clause, after which the process exits
StopReturn ==
    /\ stack # <<>> /\ Top.pc = "return"
    /\ left' = IF left = Unset THEN Attributes ELSE left
    /\ IF Top.by = "handler"
       THEN Unwind("SystemExit", TRUE)
       ELSE /\ mainpc' = "exited"
            /\ stack' = <<>>
            /\ UNCHANGED <<exitCode, stops>>
    /\ UNCHANGED <<running, handles, signals, device, calls, quiet>>

StopNext ==
    \/ SignalArrives
    \/ MainReachesFinally
    \/ StopEnter
    \/ StopStreamTest
    \/ StopStreamCall
    \/ StopCloseCall
    \/ StopStreamClear
    \/ StopPaTest
    \/ StopTerminate
    \/ StopPaClear
    \/ StopModel
    \/ StopReturn

StopSpec == StopInit /\ [][StopNext]_vars

\* ----------------------------------------------------------- specification
Next ==
    \/ Tick
    \/ InitWake \/ InitSpeech \/ InitStream \/ SetRunning \/ LoopTest
    \/ ReadFrame \/ Decide \/ PollError \/ CuePlay \/ CueUnlink \/ Spawn
    \/ SetLast \/ ReturnTrue \/ ReturnFalse \/ MainFinally
    \/ Signal
    \/ \E w \in Workers : OverlapCheck(w)
    \/ \E w \in Workers : SetActive(w)
    \/ \E w \in Workers : Capture(w)
    \/ \E w \in Workers : Feedback(w)
    \/ \E w \in Workers : Transcribe(w)
    \/ \E w \in Workers : Dispatch(w)
    \/ \E w \in Workers : Speak(w)
    \/ \E w \in Workers : Finally(w)

Spec == Init /\ [][Next]_vars

\* The main thread is always scheduled again and each of its blocking calls
\* returns or times out; nothing is assumed of the workers or of signals.
LiveSpec == Spec /\ WF_vars(MainStep)

TypeOK ==
    /\ mainpc \in {"init_wake", "init_sr", "init_stream", "set_running",
                   "loop", "read", "decide", "poll_err", "cue_play",
                   "cue_unlink", "spawn", "set_last", "ret_true",
                   "ret_false", "main_finally", "exited"}
    /\ running \in BOOLEAN /\ recording \in BOOLEAN
    /\ wake_word_model \in BOOLEAN /\ audio_stream \in BOOLEAN
    /\ pyaudio_instance \in BOOLEAN
    /\ last_run \in 0..MaxTime /\ now \in StartTime..MaxTime
    /\ predictions \in Frames
    /\ wpc \in [Workers -> {"idle", "check", "dropped", "done"} \cup BodyPcs]
    /\ path \in [Workers -> ExitPaths \cup {"none"}]
    /\ cycles \in [Workers -> 0..1]
    /\ reads \in 0..MaxReads /\ frameLaunches \in 0..1
    /\ lastLaunch \in 0..MaxTime
    /\ signals \in 0..MaxSignals
    /\ exitCode \in {-1, 0, 1}
    /\ cycleFailed \in BOOLEAN
    /\ cpc \in {"off", "record", "tone_create", "tone_play", "tone_unlink",
                "transcribe", "dispatch", "finally", "done"} \cup SpeakPcs
    /\ cpc # "off" => wpc[1] = Coarse(cpc)
    /\ enable_tts \in BOOLEAN
    /\ stt \in SttOutcomes \cup {Unset}
    /\ agent \in AgentOutcomes \cup {Unset}
    /\ reply \in ReplyTexts \cup {None}
    /\ synth \in SynthOutcomes \cup {Unset}
    /\ audio_path \in {None, Empty, ToolFile, OtherFile, FallbackTemp}
    /\ files \subseteq {MediaFile, ToolFile, OtherFile, ToneTemp, FallbackTemp}
    /\ \A i \in 1..Len(trace) :
          trace[i].op \in {"record", "create", "aplay", "unlink", "stt",
                           "agent", "speak_response", "ffplay", "tts",
                           "espeak"}
    /\ \A i \in 1..Len(stack) :
          /\ stack[i].pc \in StopPcs /\ stack[i].n \in 1..stops
          /\ stack[i].by \in {"handler", "finally"}
          /\ stack[i].seq \in BOOLEAN
    /\ device = Unset \/
          /\ device.stream \in {"none", "open", "stopped", "closed"}
          /\ device.pa \in {"none", "live", "terminated"}
    /\ \A i \in 1..Len(calls) :
          calls[i].op \in {"stop_stream", "close", "terminate"}
    /\ stops \in 0..(MaxSignals + 1)
    /\ left = Unset \/ left \in [running : BOOLEAN, audio_stream : BOOLEAN,
                                  pyaudio_instance : BOOLEAN,
                                  wake_word_model : BOOLEAN]

\* ================================================================= claims

\* C1: under every interleaving at most one worker is inside the recording
\* cycle body (after its overlap check, before its end) at a time: no two
\* workers both see the active flag false and both go on.
C1_AtMostOneWorkerInBody == Cardinality({w \in Workers : InBody(w)}) <= 1

\* C2: a worker is launched only when now - last_run > Cooldown: the
\* accepted-trigger branch is entered only then, a frame decided at or
\* before the boundary enters nothing, and two consecutive launches are
\* more than Cooldown apart.
C2_LaunchOnlyAfterCooldown ==
    /\ [](mainpc \in {"cue_play", "cue_unlink", "spawn"}
            => now - last_run > Cooldown)
    /\ [][(mainpc = "decide" /\ now - last_run <= Cooldown)
            => mainpc' \notin TriggerPcs]_vars
    /\ [][Launched' > Launched
            => /\ now - last_run > Cooldown
               /\ now - lastLaunch > Cooldown]_vars

C2_Witness ==
    /\ Launched >= 2
    /\ mainpc = "set_last"
    /\ lastLaunch - last_run > Cooldown

\* C3: when a recording cycle that set the active flag ends, the flag is
\* false at that moment, whatever exit path the cycle took.
C3_FlagClearedAtCycleEnd ==
    [][\A w \in Workers :
          (wpc[w] = "finally" /\ wpc'[w] = "done")
            => (path[w] \in ExitPaths /\ cycles[w] = 1 /\ recording' = FALSE)
      ]_vars

C3_Witness ==
    \E w \in Workers : wpc[w] = "done" /\ cycles[w] = 1 /\ ~recording

\* C4: while the active flag is true no second cycle starts; a worker whose
\* overlap check meets a true flag returns at once, leaves the flag true,
\* and never runs a cycle later.
C4_NoCycleStartsWhileActive ==
    /\ [][recording => cycles' = cycles]_vars
    /\ [][\A w \in Workers :
            (wpc[w] = "check" /\ recording /\ wpc'[w] # "check")
              => (wpc'[w] = "dropped" /\ recording')]_vars
    /\ [][\A w \in Workers :
            wpc[w] = "dropped"
              => (wpc'[w] = "dropped" /\ cycles'[w] = 0)]_vars

\* the frame last read carries the configured wake word with a confidence
\* above the threshold
Qualifies ==
    /\ WAKE_WORD \in DOMAIN predictions
    /\ predictions[WAKE_WORD] > DETECTION_THRESHOLD

\* C5 as stated: every qualifying frame past the cooldown starts exactly one
\* recording cycle, so every worker launched for such a frame, once it has
\* returned, has started one cycle.
C5_OneCyclePerQualifyingFrame ==
    \A w \in Workers : wpc[w] \in {"dropped", "done"} => cycles[w] = 1

\* C5 amended: a qualifying frame past the cooldown enters the trigger
\* branch, which launches exactly one worker for the frame; that worker
\* starts a cycle once if its overlap check reads the flag false and none if
\* it reads the flag true.
C5_OneWorkerPerQualifyingFrame ==
    /\ [](frameLaunches <= 1)
    /\ [](mainpc \in {"cue_play", "cue_unlink", "spawn"} => frameLaunches = 0)
    /\ [](mainpc = "set_last" => frameLaunches = 1)
    /\ [][(/\ mainpc = "decide" /\ Qualifies /\ now - last_run > Cooldown
           /\ mainpc' # mainpc /\ signals' = signals)
            => mainpc' = "cue_play"]_vars
    /\ [][(mainpc \in {"cue_play", "cue_unlink"} /\ mainpc' # mainpc)
            => (mainpc' \in {"cue_unlink", "spawn"} \/ signals' > signals)
      ]_vars
    /\ [][(mainpc = "spawn" /\ mainpc' # mainpc /\ signals' = signals)
            => (mainpc' = "set_last" /\ Launched' = Launched + 1)]_vars
    /\ [][\A w \in Workers :
            (wpc[w] = "check" /\ wpc'[w] # "check")
              => IF recording THEN wpc'[w] = "dropped" ELSE wpc'[w] = "set"
      ]_vars
    /\ [](\A w \in Workers :
            /\ cycles[w] <= 1
            /\ wpc[w] \in {"idle", "check", "set", "dropped"} => cycles[w] = 0
            /\ wpc[w] \in (BodyPcs \ {"set"}) \cup {"done"} => cycles[w] = 1)

C5_Witness ==
    /\ frameLaunches = 1
    /\ mainpc = "set_last"
    /\ wpc[1] = "capture" /\ cycles[1] = 1
    /\ wpc[2] = "dropped" /\ cycles[2] = 0

\* C6: a frame whose confidence for the configured wake word is at or below
\* the threshold, or that has no entry for it, never triggers: no cue, no
\* worker, last trigger time unchanged, whatever other wake words score.
C6_NoTriggerAtOrBelowThreshold ==
    /\ [](mainpc \in TriggerPcs => Qualifies)
    /\ [][~Qualifies
            => /\ mainpc' \notin TriggerPcs
               /\ Launched' = Launched
               /\ last_run' = last_run]_vars

C6_Witness ==
    /\ mainpc = "loop" /\ reads = 1 /\ running
    /\ DOMAIN predictions = WakeWords
    /\ predictions[WAKE_WORD] = DETECTION_THRESHOLD
    /\ predictions["alexa"] > DETECTION_THRESHOLD
    /\ Launched = 0 /\ last_run = 0

\* C7: while the service runs and no signal has arrived, the polling loop
\* always eventually attempts its next read, whether or not a cycle is
\* active and even if no worker ever takes another step.
C7_PollingNeverBlocked ==
    \A n \in 0..(MaxReads - 1) :
        (running /\ signals = 0 /\ reads = n) ~> (reads > n \/ signals > 0)

C7_Witness ==
    /\ running /\ signals = 0 /\ reads >= 2
    /\ recording /\ wpc[1] = "capture"

\* C8: an error in the read or the detector is not fatal: the handler goes
\* back to the loop test, which goes on to the next read while the service
\* runs; last_run, the active flag and the workers are left alone.
C8_PollErrorNotFatal ==
    /\ [][(mainpc = "read" /\ mainpc' = "poll_err")
            => UNCHANGED <<last_run, recording, wpc, running>>]_vars
    /\ [][(mainpc = "poll_err" /\ mainpc' # mainpc /\ signals' = signals)
            => /\ mainpc' = "loop"
               /\ UNCHANGED <<last_run, recording, wpc, running>>]_vars
    /\ [][(/\ mainpc = "loop" /\ running
           /\ mainpc' # mainpc /\ signals' = signals)
            => mainpc' = "read"]_vars

C8_Witness ==
    mainpc = "read" /\ running /\ reads = 1 /\ predictions = NoPredictions

\* what C9 says of a failed initialization apart from the exit status: the
\* later initializers are not run, the loop is never entered, nothing is
\* read and nothing launched
InitAborted ==
    /\ initFailed = "wake" => initRan = <<"wake">>
    /\ initFailed = "sr" => initRan = <<"wake", "sr">>
    /\ initFailed = "stream" => initRan = <<"wake", "sr", "stream">>
    /\ mainpc \in {"ret_false", "main_finally", "exited"}
    /\ ~running /\ reads = 0 /\ Launched = 0 /\ ~recording

\* C9 as stated: after a failed initialization start aborts and the process
\* exits with a non-zero code.
C9_InitFailureExitsNonZero ==
    initFailed # "none"
      => /\ InitAborted
         /\ mainpc = "exited" => exitCode # 0

\* C9 amended: after a failed initialization start aborts, and the process
\* exits with a non-zero code unless a shutdown signal is handled before it
\* exits, in which case the handler's exit code 0 is the exit status.
C9_InitFailureAborts ==
    initFailed # "none"
      => /\ InitAborted
         /\ (signals = 0 /\ mainpc = "main_finally") => exitCode = 1
         /\ mainpc = "exited" => exitCode = IF signals = 0 THEN 1 ELSE 0

C9_Witness ==
    /\ initFailed = "sr" /\ initRan = <<"wake", "sr">>
    /\ mainpc = "exited" /\ exitCode = 1 /\ signals = 0

\* C10: once a shutdown signal is handled no frame is read and no worker is
\* launched any more, the stream and the detector are released, the process
\* exits with code 0, and the handler's stop leaves the active flag and the
\* last trigger time alone.
C10_ShutdownStopsPolling ==
    /\ [][signals > 0 => (reads' = reads /\ Launched' = Launched)]_vars
    /\ [](signals > 0
            => ~running /\ ~audio_stream /\ ~pyaudio_instance
               /\ ~wake_word_model)
    /\ []((signals > 0 /\ mainpc = "exited") => exitCode = 0)
    /\ [][signals' > signals
            => (recording' = recording /\ last_run' = last_run)]_vars

\* C11: a failure inside a recording cycle stays inside it: no step of a
\* worker in its cycle moves the polling loop or changes running, last_run
\* or the handles; the failed cycle ends with the flag cleared, and a worker
\* whose overlap check then reads the flag false starts a new cycle.
C11_CycleFailuresContained ==
    /\ [][(\E w \in Workers : wpc[w] \in BodyPcs /\ wpc'[w] # wpc[w])
            => UNCHANGED <<mainpc, running, last_run, handles>>]_vars
    /\ [][\A w \in Workers :
            (wpc[w] = "finally" /\ wpc'[w] = "done"
               /\ path[w] \in FailurePaths)
              => (~recording' /\ cycleFailed')]_vars
    /\ [][\A w \in Workers :
            (wpc[w] = "check" /\ ~recording /\ wpc'[w] # "check")
              => wpc'[w] = "set"]_vars

C11_Witness ==
    /\ cycleFailed /\ wpc[1] = "done"
    /\ wpc[2] = "capture" /\ cycles[2] = 1 /\ recording
    /\ running /\ mainpc = "read" /\ reads = 2 /\ signals = 0

\* ------------------------------------------------- claims about one cycle
\* the events of the cycle so far with the given operation
Events(op) == {i \in 1..Len(trace) : trace[i].op = op}
Usable == stt # Unset /\ stt.kind = "text" /\ Strip(stt.text) # Empty

\* C12: the agent dispatcher is invoked only after a transcription that
\* succeeded with text that is non-empty once stripped; after an empty or
\* whitespace-only transcript, speech that was not understood or a failure
\* of the recognition service, neither the dispatcher nor the response
\* renderer is invoked in the cycle.
C12_DispatchOnlyUsableTranscript ==
    /\ (Events("agent") # {} \/ cpc = "dispatch") => Usable
    /\ (stt # Unset /\ ~Usable) =>
          /\ Events("agent") = {} /\ Events("speak_response") = {}
          /\ cpc \in {"finally", "done"}

C12_Witness ==
    /\ cpc = "done"
    /\ stt = [kind |-> "text", text |-> <<" ", "lights", "on", "\n">>]
    /\ \E i \in Events("agent") :
          trace[i].arg = <<"lights", "on", ". Reply in voice mode.">>
    /\ Events("speak_response") # {}

\* the failure modes of the agent process
AgentFailed(o) ==
    \/ o.kind \in {"timeout", "notfound"}
    \/ o.kind = "exit" /\ o.rc # 0
    \/ o.kind = "exit" /\ ~o.stdout.json
    \/ o.kind = "exit" /\ o.stdout.json /\
          \/ "result" \notin DOMAIN o.stdout.obj
          \/ "payloads" \notin DOMAIN o.stdout.obj.result
          \/ o.stdout.obj.result.payloads = <<>>
          \/ "text" \notin DOMAIN o.stdout.obj.result.payloads[1]
          \/ o.stdout.obj.result.payloads[1].text = Empty

\* C13: for every failure mode of the agent process (non-zero exit, stdout
\* that is not structured output, missing result or payloads, empty payload
\* list, first payload without text or with empty text, timeout, binary not
\* found) send_to_openclaw returns none and raises nothing.
C13_AgentFailureReturnsNone ==
    (agent # Unset /\ AgentFailed(agent)) =>
        /\ send_to_openclaw(agent) = Return(None)
        /\ reply = None
        /\ \A i \in Events("agent") : trace[i].res = "returned"
        /\ Events("speak_response") = {}
        /\ cpc = "finally" => path[1] = "no_reply"

C13_Witness ==
    /\ agent = [kind |-> "notfound"]
    /\ cpc = "finally" /\ path[1] = "no_reply"
    /\ reply = None
    /\ \E i \in Events("agent") : trace[i].res = "returned"

\* the agent exited 0 with well-formed output and a non-empty payload list
AgentAnswered(o) ==
    /\ o.kind = "exit" /\ o.rc = 0 /\ o.stdout.json
    /\ "result" \in DOMAIN o.stdout.obj
    /\ "payloads" \in DOMAIN o.stdout.obj.result
    /\ o.stdout.obj.result.payloads # <<>>

\* C14: when the agent exits 0 with well-formed output whose payload list
\* is non-empty, send_to_openclaw returns the text of the first payload and
\* never that of a later one; when the first payload's text is empty the
\* result is none, even if a later payload carries text.
C14_FirstPayloadOnly ==
    (agent # Unset /\ AgentAnswered(agent)) =>
        LET first == agent.stdout.obj.result.payloads[1] IN
        IF "text" \in DOMAIN first /\ first.text # Empty
        THEN reply = first.text /\ send_to_openclaw(agent) = Return(first.text)
        ELSE reply = None /\ send_to_openclaw(agent) = Return(None)

C14_Witness ==
    /\ agent # Unset /\ AgentAnswered(agent)
    /\ agent.stdout.obj.result.payloads =
          <<[text |-> Empty], [text |-> <<"hello">>]>>
    /\ reply = None
    /\ cpc = "done"

\* C15: with TTS disabled by configuration speak_response does nothing
\* audible for any reply: no synthesis, no player, no temporary file
\* created or deleted; the call is the last event of the cycle.
C15_DisabledTtsIsSilent ==
    ~enable_tts =>
        /\ \A i \in Events("speak_response") :
              i = Len(trace) /\ trace[i].res = "silent"
        /\ cpc \notin SpeakPcs \ {"speak"}
        /\ Events("tts") = {} /\ Events("espeak") = {} /\ Events("ffplay") = {}
        /\ \A i \in 1..Len(trace) :
              trace[i].op \in {"aplay", "create", "unlink"}
                => trace[i].arg = ToneTemp
        /\ Events("speak_response") # {} =>
              files \subseteq {MediaFile, ToneTemp}

C15_Witness ==
    /\ ~enable_tts
    /\ cpc = "done"
    /\ reply = <<Marker>> \o MediaFile /\ MediaFile \in files
    /\ Events("speak_response") # {}

\* C16: for a reply that starts with the MEDIA: marker and names a file
\* that does not exist, speak_response attempts no playback with either
\* player, invokes no synthesis and returns normally.
C16_MissingMediaPlaysNothing ==
    \A i \in Events("speak_response") :
        (StartsWithMarker(trace[i].arg) /\ MediaPath(trace[i].arg) \notin files)
          => /\ i = Len(trace)
             /\ cpc \in {"finally", "done"}
             /\ cpc = "finally" => path[1] \in {"render_failed", "success"}
             /\ Events("ffplay") = {} /\ Events("tts") = {}
             /\ Events("espeak") = {}
             /\ \A j \in Events("aplay") : trace[j].arg = ToneTemp

C16_Witness ==
    /\ enable_tts
    /\ reply = <<Marker, " ">> \o MediaFile \o <<"\n">>
    /\ MediaFile \notin files
    /\ cpc = "finally" /\ path[1] = "render_failed"
    /\ trace[Len(trace)].op = "speak_response"

PrimaryFailed(o) ==
    \/ o.kind \in {"timeout", "notfound", "error"}
    \/ o.kind = "exit" /\ (o.rc # 0 \/ \A i \in 1..Len(o.stdout) :
                                          o.stdout[i] # Marker)
AfterSynthesis == {"play_check", "play_audio", "cleanup", "finally", "done"}

\* C18: for a plain-text reply with TTS enabled the primary synthesis is
\* attempted exactly once; the fallback synthesis runs if and only if the
\* primary attempt failed, at most once, and never after a primary success.
C18_FallbackIffPrimaryFailed ==
    \A i \in Events("speak_response") :
        (enable_tts /\ ~StartsWithMarker(trace[i].arg)) =>
          /\ cpc \in SpeakPcs \cup {"finally", "done"}
          /\ Cardinality(Events("tts")) = IF cpc = "tts_primary" THEN 0 ELSE 1
          /\ \A j \in Events("tts") : j = i + 1 /\ trace[j].arg = trace[i].arg
          /\ Cardinality(Events("espeak")) <= 1
          /\ cpc = "tts_fallback" => PrimaryFailed(synth)
          /\ cpc \in AfterSynthesis =>
                (Events("espeak") # {} <=> PrimaryFailed(synth))

C18_Witness ==
    /\ enable_tts /\ reply = <<"hello">>
    /\ synth = [kind |-> "exit", rc |-> 0, stdout |-> <<"no audio">>,
                creates |-> FALSE]
    /\ Cardinality(Events("tts")) = 1 /\ Cardinality(Events("espeak")) = 1
    /\ cpc = "done"

PrimaryTimedOut == synth = [kind |-> "timeout"]
Played(f)  == {i \in Events("aplay") : trace[i].arg = f}
Deleted(f) == {i \in Events("unlink") : trace[i].arg = f}

C20_TempFilesDeleted ==
    cpc = "done" =>
        \A i \in Events("create") : \E j \in Deleted(trace[i].arg) : j > i

\* C21: the renderer never deletes a file produced by the agent's synthesis
\* sub-command: whatever path the primary synthesis returns, the file is
\* left in place, and only the files the service created itself (fallback
\* output, feedback tone) are ever unlinked.
C21_PrimaryOutputNeverDeleted ==
    /\ \A i \in Events("unlink") : trace[i].arg \in {ToneTemp, FallbackTemp}
    /\ (synth # Unset /\ PrimarySucceeded(synth)) =>
          \A i \in Played(PrimaryPath(synth)) : PrimaryPath(synth) \in files

\* C22: once the play attempt for the feedback tone has been made the tone
\* file is unlinked next, whether aplay succeeded, exited non-zero, timed
\* out or was missing; a failing unlink is swallowed, and
\* play_wake_feedback returns to the cycle, which goes on to transcription.
C22_ToneDeletedAfterPlay ==
    /\ \A i \in Played(ToneTemp) :
          cpc # "tone_unlink" => i + 1 \in Deleted(ToneTemp)
    /\ \A j \in Deleted(ToneTemp) :
          /\ j - 1 \in Played(ToneTemp)
          /\ trace[j].res = "ok" => ToneTemp \notin files
          /\ cpc = "transcribe" \/ j + 1 \in Events("stt")
    /\ cpc \in {"tone_create", "tone_play", "tone_unlink"}
          => path[1] = "none"

C22_Witness ==
    /\ cpc = "done"
    /\ \E i \in Played(ToneTemp) :
          /\ trace[i].res = "notfound"
          /\ trace[i + 1] = Ev("unlink", ToneTemp, "fail")
          /\ trace[i + 2].op = "stt"
    /\ ToneTemp \in files

\* the steps of a cycle, numbered in the order of the claim; 0: no step
StepRank(e) ==
    CASE e.op = "record" -> 1
      [] e.op = "aplay" /\ e.arg = ToneTemp -> 2
      [] e.op = "stt" -> 3
      [] e.op = "agent" -> 4
      [] e.op = "speak_response" -> 5
      [] OTHER -> 0

C24_LastTriggerTimeOnlyByTrigger ==
    [][last_run' # last_run =>
         /\ mainpc = "set_last" /\ mainpc' = "loop"
         /\ last_run' = now /\ last_run' > last_run
         /\ frameLaunches = 1 /\ lastLaunch <= now /\ lastLaunch > last_run
         /\ UNCHANGED <<wpc, recording, running, signals, reads, handles>>]_vars

C24_Witness ==
    /\ mainpc = "loop" /\ Launched = 1
    /\ last_run = now /\ last_run > lastLaunch
    /\ wpc[1] = "done"

\* C25: every cycle that has set the active flag ends and clears it, given
\* that each blocking step (capture, transcription, agent dispatch,
\* synthesis, playback) returns or times out; once the cycle is over the
\* flag stays cleared, so that a later worker's overlap check passes.
C25_CycleEnds ==
    /\ recording ~> (cpc = "done" /\ ~recording)
    /\ [](cpc = "done" => ~recording)

C25_Witness ==
    /\ cpc = "done" /\ ~recording
    /\ agent = [kind |-> "timeout"]
    /\ Events("record") # {} /\ Events("stt") # {}

\* C26: in every reachable state the active flag is true exactly when some
\* worker is inside the cycle body, having set the flag and not yet run its
\* final clearing step.
C26_FlagIffCycleInProgress ==
    recording <=> \E w \in Workers : wpc[w] \in BodyPcs \ {"set"}

\* ------------------------------------------ claims about the trigger action
\* C28: the accepted-trigger action does not depend on the active flag.  A
\* frame is accepted exactly when it passes the threshold and the cooldown
\* checks, whatever the flag; the polling thread then plays the cue once for
\* the frame, starts exactly one worker and sets the last trigger time to the
\* current time, none of these steps reading or writing the flag, also when a
\* cycle is active and the worker started is dropped.  (A step taken by the
\* signal handler ends the service and is not a step of the action.)
C28_TriggerIgnoresActiveFlag ==
    /\ [][(mainpc = "decide" /\ mainpc' # mainpc /\ signals' = signals)
            => /\ mainpc' = "cue_play"
                    <=> (Qualifies /\ now - last_run > Cooldown)
               /\ mainpc' \in {"cue_play", "loop"}]_vars
    /\ [][(mainpc' = "cue_play" /\ mainpc # "cue_play")
            => (mainpc = "decide" /\ frameLaunches = 0)]_vars
    /\ [][(mainpc \in {"cue_play", "cue_unlink"} /\ mainpc' # mainpc)
            => /\ mainpc' \in {"cue_unlink", "spawn"} \/ signals' > signals
               /\ mainpc' # "cue_play"
               /\ wpc' = wpc /\ recording' = recording]_vars
    /\ [][(mainpc = "spawn" /\ mainpc' # mainpc /\ signals' = signals)
            => /\ mainpc' = "set_last"
               /\ Launched' = Launched + 1
               /\ wpc'[Launched'] = "check"
               /\ frameLaunches' = 1
               /\ recording' = recording]_vars
    /\ [][(mainpc = "set_last" /\ mainpc' # mainpc /\ signals' = signals)
            => /\ mainpc' = "loop"
               /\ last_run' = now
               /\ frameLaunches' = 1
               /\ wpc' = wpc /\ recording' = recording]_vars
    /\ [][\A w \in Workers :
            (wpc[w] = "dropped" \/ wpc'[w] = "dropped")
              => last_run' = last_run \/ mainpc = "set_last"]_vars

\* a second trigger accepted while the first worker's cycle is active: its
\* worker was dropped and the last trigger time was set all the same
C28_Witness ==
    /\ mainpc = "loop" /\ signals = 0
    /\ recording
    /\ wpc[1] \in BodyPcs \ {"set"}
    /\ wpc[2] = "dropped" /\ cycles[2] = 0
    /\ frameLaunches = 1
    /\ lastLaunch = now /\ last_run = now

\* ------------------------------------------------ claims about the shutdown
Released ==
    ~running /\ ~audio_stream /\ ~pyaudio_instance /\ ~wake_word_model

\* C27: stop is idempotent: a call of stop that begins after a call of stop
\* has returned (main's finally clause after the signal handler) finds
\* every handle released, makes no teardown call on the audio stream or the
\* audio library, raises nothing and leaves the attributes as the first
\* call left them.
C27_StopIdempotent ==
    /\ \A i \in 1..Len(stack) :
          stack[i].seq =>
            /\ Released /\ Attributes = left
            /\ stack[i].pc \in {"enter", "stream_test", "pa_test", "model",
                                "return"}
    /\ \A i \in 1..Len(calls) : ~calls[i].seq
    /\ left # Unset => Released /\ Attributes = left

C27_Witness ==
    /\ mainpc = "exited" /\ exitCode = 0
    /\ initFailed = "none" /\ signals = 1 /\ stops = 2
    /\ Len(calls) = 3 /\ \A i \in 1..3 : calls[i].n = 1
    /\ left = [running |-> FALSE, audio_stream |-> FALSE,
               pyaudio_instance |-> FALSE, wake_word_model |-> FALSE]
    /\ device = [stream |-> "closed", pa |-> "terminated"]

====
